---- MODULE Spec2Model ----
(***************************************************************************)
(* Watch-time accounting of riddlerrr_bot (src/cogs/watch_time_tracker.py).*)
(*                                                                         *)
(* The cog WatchTimeTracker runs one loop (start_watch_time_tracker) that  *)
(* spawns, once per period, an independent task _update_watch_times.  Each *)
(* task suspends at every await; between two awaits it runs atomically     *)
(* (asyncio is cooperative), so one action of the model is the code from   *)
(* the completion of one await to the start of the next.  The chat         *)
(* commands watch_time and top_watchers read the same MongoDB collection.  *)
(***************************************************************************)
EXTENDS Integers, Sequences, FiniteSets, TLC

\* ----------------------------------------------------------------- bounds

\* Number of iterations of the sampler loop that are explored.
MaxTicks == 2

\* The same, when every task finishes before the next one is created.
MaxSeqTicks == 5

\* Number of _update_watch_times tasks that may be unfinished at once.
MaxRunning == 2

\* Number of documents in the collection when a chat command is explored.
MaxDocs == 6

\* Number of get_a_riddle calls that may be unfinished at once.
MaxRedemptions == 2

\* ------------------------------------------------------ program constants

\* WatchTimeTracker.__init__ defaults and the cog's fixed list.
bot_name == "riddlerrrbot"

channel_name == "riddlerrr"

bot_list ==
    <<"regressz", "8roe", "drapsnatt", "d0nk7", "8hvdes", "markzynk", "tarsai">>

\* cursor.to_list(length=5) and the "loop_counter < 5" of top_watchers.
TopLength == 5

SepLimit == 5

\* asyncio.sleep(5) before the loop and asyncio.sleep(60) in it.
WarmUpDelay == 5

TickPeriod == 60

\* get_a_riddle: the limit of its while loop, the lengths it starts
\* with, and its asyncio.sleep(30).
MaxRiddleLength == 439

InitialLength == 501

AnswerDelay == 30

\* The custom-reward-id that ChannelPointRewards.event_message matches,
\* and the one Spotify.event_message matches.
RiddleRewardId == "3021857f-d329-4de0-85ff-b557375849f5"

SongRewardId == "0f2a93f0-7e7d-4f2c-a667-8bb622783957"

\* The reward id that event_pubsub_channel_points matches.
CoinflipRewardId == "eadc734f-390c-4795-87d2-04b538e3afb7"

\* create_coin_flip_prediction: the status it tests for and its
\* asyncio.sleep(60).
StatusOk == 200

PredictionWindow == 60

\* ------------------------------------------------------------ environment

\* The accounts that may be present in the channel's chat: Chatter objects,
\* each with the name the chat reports and the id chatter.user() resolves
\* it to.  Account 1 is seen under two names (a rename between visits);
\* "Riddlerrr" is an upper/lower-case variation of the channel owner's name.
ChatterPool ==
    { [name |-> "alice",        id |-> 1],
      [name |-> "alicia",       id |-> 1],
      [name |-> "riddlerrr",    id |-> 2],
      [name |-> "Riddlerrr",    id |-> 2],
      [name |-> "riddlerrrbot", id |-> 3],
      [name |-> "regressz",     id |-> 4] }

ViewerIds == { c.id : c \in ChatterPool }

NoChatter == [name |-> "", id |-> 0]

\* What channel.chatters can hold at one moment: an account is in chat
\* under one name.
Presences ==
    { P \in SUBSET ChatterPool : \A x, y \in P : x.id = y.id => x = y }

\* ------------------------------------------------------------------ state

VARIABLES
    viewers_table,   \* the MongoDB collection: a set of documents
    loop_pc,         \* position of start_watch_time_tracker
    loop_time,       \* time start_watch_time_tracker has spent in its sleeps
    ticks,           \* number of tasks the loop has created
    task,            \* task[s]: an unfinished _update_watch_times task, or Idle
    faults,          \* observer: an awaited call has raised
    sampled,         \* observer, while ~faults: per id, the ticks that
                     \* sampled it as creditable (0: the earlier runs)
    skipped,         \* observer, while ~faults: a for loop has skipped a
                     \* chatter with "continue"
    overlapped,      \* observer, while ~faults: two tasks have been
                     \* unfinished at once
    last_credit,     \* observer: per id, newest tick that wrote it, and name
    last_end,        \* observer: how the task that ended last did end
    cmd,             \* the chat command being handled, with its locals
    reply,           \* the message ctx.reply is sending
    reported,        \* observer: the requester and total of the watch_time
                     \* reply sent last with a total
    song_cmd,        \* Spotify.song: its position, its local, what it has sent
    redemptions,     \* redemptions[h]: a get_a_riddle call, with its locals
    last_message,    \* observer: the message event_message was called with last
    coinflip         \* create_coin_flip_prediction: its position, its locals,
                     \* the PATCH requests it has issued, what it has sent

\* The state of the cogs Spotify and ChannelPointRewards.
cog_vars == << song_cmd, redemptions, last_message, coinflip >>

vars ==
    << viewers_table, loop_pc, loop_time, ticks, task,
       sampled, skipped, faults, overlapped, last_credit, last_end, cmd, reply, reported, cog_vars >>

\* The state of the cog WatchTimeTracker.
watch_vars ==
    << viewers_table, loop_pc, loop_time, ticks, task, sampled, skipped, faults,
       overlapped, last_credit, last_end, cmd, reply, reported >>

\* At most MaxRunning tasks exist at once; a finished task's slot is reused.
Slots == 1 .. MaxRunning

\* ----------------------------------------------------------- the ledger

\* find_one({"_id": id}): the document, when there is one.
HasDoc(table, id) == \E d \in table : d._id = id

DocOf(table, id) == CHOOSE d \in table : d._id = id

\* watch_time_mins of an id, 0 when it has no document.
MinsOf(table, id) ==
    IF HasDoc(table, id) THEN DocOf(table, id).watch_time_mins ELSE 0

\* Mutant: the new document starts at 0 minutes.
insert_one_zero(table, id, name) ==
    table \cup { [_id |-> id, name |-> name, watch_time_mins |-> 0] }

\* Mutant: the new document has no name.
insert_one_without_name(table, id, name) ==
    table \cup { [_id |-> id, watch_time_mins |-> 1] }

\* insert_one({"_id": id, "name": name, "watch_time_mins": 1}); the caller
\* has checked that no document has this _id (the unique index of _id).
insert_one(table, id, name) ==
    table \cup { [_id |-> id, name |-> name, watch_time_mins |-> 1] }

\* Mutant: update_many with an empty filter.
update_one_every(table, id, name) ==
    { [d EXCEPT !.watch_time_mins = @ + 1] : d \in table }

\* Mutant: the matching document is deleted.
update_one_deletes(table, id, name) == { d \in table : d._id # id }

\* Mutant: "$set" of the name without the "$inc".
update_one_set_only(table, id, name) ==
    { IF d._id = id THEN [d EXCEPT !.name = name] ELSE d : d \in table }

\* Mutant: "$inc" by -1.
update_one_dec(table, id, name) ==
    { IF d._id = id
        THEN [d EXCEPT !.name = name, !.watch_time_mins = @ - 1]
        ELSE d : d \in table }

\* update_one({"_id": id}, {"$set": {"name": name},
\*                          "$inc": {"watch_time_mins": 1}}):
\* one atomic server-side update of the matching document, if any.
update_one(table, id, name) ==
    { IF d._id = id
        THEN [d EXCEPT !.name = name, !.watch_time_mins = @ + 1]
        ELSE d : d \in table }

\* ------------------------------------------------------ exclusion policy

InList(x, list) == \E i \in 1 .. Len(list) : list[i] = x

\* Mutant: the test without "or chatter.name in self.bot_list".
is_excluded_no_list(name) ==
    \/ name = channel_name
    \/ name = bot_name

\* The test of the for loop: chatter.name in (channel_name, self.bot_name)
\* or chatter.name in self.bot_list.  Python's "in" compares with ==.
is_excluded(name) ==
    \/ name = channel_name
    \/ name = bot_name
    \/ InList(name, bot_list)

\* --------------------------------------------------------------- the tasks

\* A task: its position, its tick number, and its locals.
Idle ==
    [pc |-> "none", tick |-> 0, stream_info |-> FALSE,
     chatters |-> {}, chatter |-> NoChatter]

\* Task t ends, returning ("offline" from "if not stream_info", "done"
\* after the for loop) or raising ("failed"); its locals are gone.
Ends(t, how) ==
    /\ task' = [task EXCEPT ![t] = Idle]
    /\ last_end' = how

Unfinished(t) == task[t].pc # "none"

Running == { t \in Slots : Unfinished(t) }

InLoopBody(t) == task[t].pc \in {"user", "find_one", "insert_one", "update_one"}

\* Mutant: the for loop without the test and its "continue".
Surviving_all(snapshot) == snapshot

\* The chatters of a set that the for loop does not skip with "continue".
Surviving(snapshot) == { c \in snapshot : ~is_excluded(c.name) }

\* Mutant: the for loop meets the chatter it has just processed again.
NextChatter_revisits(t, rest) ==
    IF Surviving(rest) # {} \/ task[t].pc # "fetch_streams"
      THEN /\ \E c \in Surviving(rest) \cup
                         (IF task[t].pc = "fetch_streams" THEN {} ELSE {task[t].chatter}) :
                 task' = [task EXCEPT ![t].pc = "user",
                                      ![t].stream_info = TRUE,
                                      ![t].chatters = Surviving(rest) \ {c},
                                      ![t].chatter = c]
           /\ UNCHANGED last_end
      ELSE Ends(t, "done")

\* The task after its for loop reached the next chatter that is not
\* skipped, or ran out of chatters (the coroutine returns).  The loop
\* iterates a set, so any order is possible; a skipped chatter has no
\* effect and no await, so the skipped ones are dropped as they are met.
NextChatter(t, rest) ==
    IF Surviving(rest) # {}
      THEN /\ \E c \in Surviving(rest) :
                 task' = [task EXCEPT ![t].pc = "user",
                                      ![t].stream_info = TRUE,
                                      ![t].chatters = Surviving(rest) \ {c},
                                      ![t].chatter = c]
           /\ UNCHANGED last_end
      ELSE Ends(t, "done")

\* No chat command is being handled; nothing is being sent.
NoCmd == [name |-> "none", pc |-> "idle", author |-> 0, viewers |-> <<>>]

NoReply == [kind |-> "none", args |-> <<>>]

\* No watch_time reply with a total has been sent.
NoReport == [author |-> 0, mins |-> 0]

\* current_user_playing_track() returned None: nothing is playing.
NoSong == [name |-> "", artists |-> <<>>, spotify |-> ""]

\* Spotify.song is not running and has not run.
SongIdle ==
    [pc |-> "none", current_song |-> NoSong, sent |-> <<>>, outcome |-> "none"]

\* A string that has not been assigned.
NoText == [text |-> "", len |-> 0]

\* No get_a_riddle call in this place, and none has been.
RedemptionIdle ==
    [pc |-> "none", riddle_length |-> 0, answer_length |-> 0,
     riddle |-> NoText, answer |-> NoText, sent |-> <<>>, waited |-> 0]

\* A response that has not been received.
NoResponse == [status |-> 0, message |-> "", data |-> <<>>]

\* create_coin_flip_prediction is not running and has not run; both ids
\* are None.
CoinflipIdle ==
    [pc |-> "none", response |-> NoResponse, prediction_id |-> "None",
     heads_id |-> "None", tails_id |-> "None", result |-> "", waited |-> 0,
     patches |-> <<>>, sent |-> <<>>, outcome |-> "none"]

\* event_message has not been called.
NoMessage == [echo |-> FALSE, reward |-> "none"]

\* The collection when the bot starts: it persists across runs, so it is
\* empty or holds what earlier runs credited.
InitTables ==
    { {}, { [_id |-> 1, name |-> "alice", watch_time_mins |-> 1] } }

\* The sampler before its first tick, with no chat command in progress; the
\* observers count what earlier runs left in the collection.
SamplerInit ==
    /\ loop_pc = "sleep5"
    /\ loop_time = 0
    /\ ticks = 0
    /\ task = [t \in Slots |-> Idle]
    /\ sampled = [i \in ViewerIds |-> IF HasDoc(viewers_table, i) THEN {0} ELSE {}]
    /\ skipped = FALSE
    /\ faults = FALSE
    /\ overlapped = FALSE
    /\ last_credit = [i \in ViewerIds |->
                        [tick |-> 0,
                         name |-> IF HasDoc(viewers_table, i)
                                    THEN DocOf(viewers_table, i).name ELSE ""]]
    /\ last_end = "none"
    /\ cmd = NoCmd
    /\ reply = NoReply
    /\ reported = NoReport
    /\ song_cmd = SongIdle
    /\ redemptions = [h \in 1 .. MaxRedemptions |-> RedemptionIdle]
    /\ last_message = NoMessage
    /\ coinflip = CoinflipIdle

Init ==
    /\ viewers_table \in InitTables
    /\ SamplerInit

\* An awaited call raises: the observers of fault-free runs stop.
Fault ==
    /\ faults' = TRUE
    /\ sampled' = [i \in ViewerIds |-> {}]
    /\ skipped' = FALSE
    /\ overlapped' = FALSE

\* ---------------------------------------------- start_watch_time_tracker

\* Mutant: one iteration creates two tasks.
create_task_pair(max_ticks, running) ==
    /\ ticks < max_ticks
    /\ Running = {}
    /\ ticks' = ticks + 1
    /\ task' = [t \in Slots |->
                  IF t <= 2
                    THEN [Idle EXCEPT !.pc = "fetch_streams", !.tick = ticks + 1]
                    ELSE Idle]
    /\ overlapped' = ~faults
    /\ UNCHANGED << viewers_table, sampled, skipped, faults, last_credit, last_end,
                    cmd, reply, reported, cog_vars >>

\* Mutant: the loop awaits the task before it sleeps, so the next task is
\* created only when the previous one has ended.
create_task_awaited(max_ticks, running) ==
    /\ ticks < max_ticks
    /\ Running = {}
    /\ ticks' = ticks + 1
    /\ task' = [task EXCEPT ![1] =
                  [Idle EXCEPT !.pc = "fetch_streams", !.tick = ticks + 1]]
    /\ overlapped' = FALSE
    /\ UNCHANGED << viewers_table, sampled, skipped, faults, last_credit, last_end,
                    cmd, reply, reported, cog_vars >>

\* asyncio.create_task(self._update_watch_times(self.channel_name)): the
\* new task is scheduled and has not run yet; the loop does not await it.
\* The model explores max_ticks iterations with at most running tasks
\* unfinished.
create_task(max_ticks, running) ==
    /\ ticks < max_ticks
    /\ Cardinality(Running) < running
    /\ ticks' = ticks + 1
    /\ LET s == CHOOSE x \in Slots \ Running : \A y \in Slots \ Running : x <= y
       IN task' = [task EXCEPT ![s] =
                     [Idle EXCEPT !.pc = "fetch_streams", !.tick = ticks + 1]]
    /\ overlapped' = (~faults /\ (overlapped \/ Running # {}))
    /\ UNCHANGED << viewers_table, sampled, skipped, faults, last_credit, last_end,
                    cmd, reply, reported, cog_vars >>

\* Mutant: the sleep returns at once.
sleep_returns_at_once(delay) == loop_time' = loop_time

\* await asyncio.sleep(delay) returns: the coroutine has waited delay
\* seconds; nothing else in it takes time (create_task does not wait).
sleep(delay) == loop_time' = loop_time + delay

\* await asyncio.sleep(5) returns: the loop is entered, the first task is
\* created and the loop suspends in asyncio.sleep(60).
WarmUp ==
    /\ loop_pc = "sleep5"
    /\ sleep(WarmUpDelay)
    /\ loop_pc' = "sleep60"
    /\ create_task(MaxTicks, MaxRunning)

\* await asyncio.sleep(60) returns: next iteration of "while True".
Tick ==
    /\ loop_pc = "sleep60"
    /\ sleep(TickPeriod)
    /\ loop_pc' = "sleep60"
    /\ create_task(MaxTicks, MaxRunning)

\* ---------------------------------------------------- _update_watch_times

\* Ids whose chatter in the snapshot passes the exclusion test.
Creditable(snapshot) == { c.id : c \in Surviving(snapshot) }

\* Mutant: without "if not stream_info: return".
FetchStreams_no_return(t, info, present) ==
    /\ task[t].pc = "fetch_streams"
    /\ NextChatter(t, present)
    /\ sampled' = [i \in ViewerIds |->
                     IF ~faults /\ i \in Creditable(present)
                       THEN sampled[i] \cup {task[t].tick} ELSE sampled[i]]
    /\ skipped' = (skipped \/ (~faults /\ Surviving(present) # present))
    /\ UNCHANGED << viewers_table, loop_pc, loop_time, ticks,
                    faults, overlapped, last_credit, cmd, reply, reported, cog_vars >>

\* Mutant: a tick that finds the channel offline suspends the loop.
FetchStreams_pauses(t, info, present) ==
    /\ task[t].pc = "fetch_streams"
    /\ IF ~info
         THEN /\ Ends(t, "offline")
              /\ loop_pc' = "paused"
              /\ UNCHANGED << sampled, skipped >>
         ELSE /\ NextChatter(t, present)
              /\ loop_pc' = loop_pc
              /\ sampled' = [i \in ViewerIds |->
                               IF ~faults /\ i \in Creditable(present)
                                 THEN sampled[i] \cup {task[t].tick} ELSE sampled[i]]
              /\ skipped' = (skipped \/ (~faults /\ Surviving(present) # present))
    /\ UNCHANGED << viewers_table, loop_time, ticks,
                    faults, overlapped, last_credit, cmd, reply, reported, cog_vars >>

\* await self.bot.fetch_streams(...) returns info (whether a stream is
\* live now); "if not stream_info: return", else channel.chatters.copy(),
\* which is the set present now, and the for loop up to its first await.
FetchStreams(t, info, present) ==
    /\ task[t].pc = "fetch_streams"
    /\ IF ~info
         THEN /\ Ends(t, "offline")
              /\ UNCHANGED << sampled, skipped >>
         ELSE /\ NextChatter(t, present)
              /\ sampled' = [i \in ViewerIds |->
                               IF ~faults /\ i \in Creditable(present)
                                 THEN sampled[i] \cup {task[t].tick} ELSE sampled[i]]
              /\ skipped' = (skipped \/ (~faults /\ Surviving(present) # present))
    /\ UNCHANGED << viewers_table, loop_pc, loop_time, ticks,
                    faults, overlapped, last_credit, cmd, reply, reported, cog_vars >>

\* self.bot.get_channel(channel_name) returns None (the channel is not in
\* the connection's cache): channel.chatters raises AttributeError.
ChannelUnresolved(t) ==
    /\ task[t].pc = "fetch_streams"
    /\ Ends(t, "failed")
    /\ Fault
    /\ UNCHANGED << viewers_table, loop_pc, loop_time, ticks, last_credit, cmd, reply, reported, cog_vars >>

\* viewer = await chatter.user() returns; find_one is awaited next.
User(t) ==
    /\ task[t].pc = "user"
    /\ task' = [task EXCEPT ![t].pc = "find_one"]
    /\ UNCHANGED << viewers_table, loop_pc, loop_time, ticks,
                    sampled, skipped, faults, overlapped, last_credit, last_end,
                    cmd, reply, reported, cog_vars >>

\* table_entry = await find_one({"_id": viewer_id}) returns;
\* "if not table_entry" chooses the write that is awaited next.
FindOne(t) ==
    /\ task[t].pc = "find_one"
    /\ task' = [task EXCEPT ![t].pc =
                  IF HasDoc(viewers_table, task[t].chatter.id)
                    THEN "update_one" ELSE "insert_one"]
    /\ UNCHANGED << viewers_table, loop_pc, loop_time, ticks,
                    sampled, skipped, faults, overlapped, last_credit, last_end,
                    cmd, reply, reported, cog_vars >>

\* The newest tick that has written the document of id, with the name.
Credited(t, c) ==
    last_credit' = [last_credit EXCEPT ![c.id] =
                      IF task[t].tick > @.tick
                        THEN [tick |-> task[t].tick, name |-> c.name] ELSE @]

\* Mutant: a collection without the unique index of _id.
InsertOne_no_index(t) ==
    /\ task[t].pc = "insert_one"
    /\ viewers_table' =
          insert_one(viewers_table, task[t].chatter.id, task[t].chatter.name)
    /\ Credited(t, task[t].chatter)
    /\ NextChatter(t, task[t].chatters)
    /\ UNCHANGED << loop_pc, loop_time, ticks, sampled, skipped, faults, overlapped,
                    cmd, reply, reported, cog_vars >>

\* await insert_one(...) returns, then "continue".  The server refuses a
\* second document with the same _id: DuplicateKeyError ends the task.
InsertOne(t) ==
    /\ task[t].pc = "insert_one"
    /\ IF HasDoc(viewers_table, task[t].chatter.id)
         THEN /\ Ends(t, "failed")
              /\ UNCHANGED << viewers_table, last_credit >>
         ELSE /\ viewers_table' =
                    insert_one(viewers_table, task[t].chatter.id, task[t].chatter.name)
              /\ Credited(t, task[t].chatter)
              /\ NextChatter(t, task[t].chatters)
    /\ UNCHANGED << loop_pc, loop_time, ticks, sampled, skipped, faults, overlapped, cmd, reply, reported, cog_vars >>

\* Mutant: the counter is written as the value find_one has read, plus
\* one; the value read is any the record has had since.
UpdateOne_read_modify_write(t) ==
    /\ task[t].pc = "update_one"
    /\ \E read \in 1 .. MinsOf(viewers_table, task[t].chatter.id) :
          viewers_table' =
             { IF d._id = task[t].chatter.id
                 THEN [d EXCEPT !.name = task[t].chatter.name,
                                !.watch_time_mins = read + 1]
                 ELSE d : d \in viewers_table }
    /\ Credited(t, task[t].chatter)
    /\ NextChatter(t, task[t].chatters)
    /\ UNCHANGED << loop_pc, loop_time, ticks, sampled, skipped, faults, overlapped,
                    cmd, reply, reported, cog_vars >>

\* await update_one(...) returns; the loop goes on.
UpdateOne(t) ==
    /\ task[t].pc = "update_one"
    /\ viewers_table' =
          update_one(viewers_table, task[t].chatter.id, task[t].chatter.name)
    /\ Credited(t, task[t].chatter)
    /\ NextChatter(t, task[t].chatters)
    /\ UNCHANGED << loop_pc, loop_time, ticks, sampled, skipped, faults, overlapped, cmd, reply, reported, cog_vars >>

\* Mutant: the exception is raised in the loop that created the task.
Raise_reaches_loop(t) ==
    /\ Unfinished(t)
    /\ Ends(t, "failed")
    /\ Fault
    /\ loop_pc' = "raised"
    /\ UNCHANGED << viewers_table, loop_time, ticks, last_credit, cmd, reply, reported, cog_vars >>

\* An awaited call (Twitch or MongoDB) raises instead of returning: the
\* exception leaves _update_watch_times, which catches nothing.
Raise(t) ==
    /\ Unfinished(t)
    /\ Ends(t, "failed")
    /\ Fault
    /\ UNCHANGED << viewers_table, loop_pc, loop_time, ticks, last_credit, cmd, reply, reported, cog_vars >>

Next ==
    \/ WarmUp
    \/ Tick
    \/ \E t \in Slots, info \in BOOLEAN, present \in Presences :
          FetchStreams(t, info, present)
    \/ \E t \in Slots : ChannelUnresolved(t)
    \/ \E t \in Slots : User(t)
    \/ \E t \in Slots : FindOne(t)
    \/ \E t \in Slots : InsertOne(t)
    \/ \E t \in Slots : UpdateOne(t)
    \/ \E t \in Slots : Raise(t)

Spec == Init /\ [][Next]_vars

\* A step of task t: the call it awaits returns or raises.
TaskStep(t) ==
    \/ \E info \in BOOLEAN, present \in Presences : FetchStreams(t, info, present)
    \/ ChannelUnresolved(t)
    \/ User(t)
    \/ FindOne(t)
    \/ InsertOne(t)
    \/ UpdateOne(t)
    \/ Raise(t)

\* The event loop runs every callback that is ready: a sleep that is over
\* resumes the loop, and a call a task awaits ends (it returns or raises).
SpecFair ==
    /\ Init /\ [][Next]_vars
    /\ WF_vars(WarmUp)
    /\ WF_vars(Tick)
    /\ \A t \in Slots : WF_vars(TaskStep(t))

\* ------------------------------------------------ ticks that do not overlap

\* The loop when every task ends within its period and no awaited call
\* raises: a task is created only when the previous one has ended.
SeqWarmUp ==
    /\ loop_pc = "sleep5"
    /\ sleep(WarmUpDelay)
    /\ loop_pc' = "sleep60"
    /\ create_task(MaxSeqTicks, 1)

SeqTick ==
    /\ loop_pc = "sleep60"
    /\ sleep(TickPeriod)
    /\ sleep(TickPeriod)
    /\ loop_pc' = "sleep60"
    /\ create_task(MaxSeqTicks, 1)

NextSeq ==
    \/ SeqWarmUp
    \/ SeqTick
    \/ \E t \in Slots, info \in BOOLEAN, present \in Presences :
          FetchStreams(t, info, present)
    \/ \E t \in Slots : User(t)
    \/ \E t \in Slots : FindOne(t)
    \/ \E t \in Slots : InsertOne(t)
    \/ \E t \in Slots : UpdateOne(t)

SpecSeq == Init /\ [][NextSeq]_vars

\* ------------------------------------------------------ the chat commands

\* Names and totals of the documents a chat command is explored against.
QueryNames == <<"a", "b", "c", "d", "e", "f", "g", "h">>

QueryName(i) == QueryNames[i]

QueryMins == {5, 90, 120}

\* find({"watch_time_mins": {"$exists": True}}): the documents that have
\* the field.
find_exists(table) == { d \in table : "watch_time_mins" \in DOMAIN d }

\* Mutant: the sort key ascending.
IsMin(d, docs) == \A e \in docs : e.watch_time_mins >= d.watch_time_mins

\* The largest watch_time_mins among the documents of a non-empty set.
IsMax(d, docs) == \A e \in docs : e.watch_time_mins <= d.watch_time_mins

\* .sort([("watch_time_mins", -1)]): the orders the server may return the
\* documents in, descending by watch_time_mins; equal keys come in any order.
RECURSIVE sort_desc(_)
sort_desc(docs) ==
    IF docs = {} THEN { <<>> }
    ELSE UNION { { <<d>> \o rest : rest \in sort_desc(docs \ {d}) } :
                 d \in { x \in docs : IsMax(x, docs) } }

\* cursor.to_list(length=n): the first n documents of the cursor.
to_list(cursor, n) ==
    IF Len(cursor) <= n THEN cursor ELSE SubSeq(cursor, 1, n)

\* Mutant: hours rounded to the nearest hour.
Hours_rounded(mins) == (mins + 30) \div 60

\* watch_time_mins // 60 and watch_time_mins % 60 (Python floor division
\* and remainder of a non-negative int by 60).
Hours(mins) == mins \div 60

Minutes(mins) == mins % 60

\* f"{loop_counter}. {viewer['name']} - {h}h, {m}m", then " | " when
\* loop_counter < 5: one piece of the message per viewer.
Piece(loop_counter, viewer) ==
    [rank |-> loop_counter, name |-> viewer.name,
     hours |-> Hours(viewer.watch_time_mins),
     minutes |-> Minutes(viewer.watch_time_mins),
     sep |-> loop_counter < SepLimit]

\* The message the for loop of top_watchers builds.
TopMessage(viewers) ==
    [kind |-> "top_watchers",
     args |-> [i \in 1 .. Len(viewers) |-> Piece(i, viewers[i])]]

\* "No data found!"
NoDataMessage == [kind |-> "No data found!", args |-> <<>>]

\* f"You have been watching for {h} hours and {m} minutes! (logged since ...)"
WatchTimeMessage(mins) ==
    [kind |-> "You have been watching for {} hours and {} minutes!",
     args |-> <<Hours(mins), Minutes(mins)>>]

\* Mutant: a missing document is reported as zero minutes.
WatchTimeReply_zero(table, id) ==
    IF ~HasDoc(table, id) THEN WatchTimeMessage(0)
    ELSE WatchTimeMessage(DocOf(table, id).watch_time_mins)

\* The reply of watch_time: "if not viewer_data" replies no data.
WatchTimeReply(table, id) ==
    IF ~HasDoc(table, id) THEN NoDataMessage
    ELSE WatchTimeMessage(DocOf(table, id).watch_time_mins)

\* !watchtime by author: the handler awaits ctx.author.user().
WatchTime(author) ==
    /\ cmd = NoCmd
    /\ cmd' = [NoCmd EXCEPT !.name = "watch_time", !.pc = "user", !.author = author]
    /\ UNCHANGED << viewers_table, loop_pc, loop_time, ticks, task, sampled, skipped, faults,
                    overlapped, last_credit, last_end, reply, reported, cog_vars >>

\* user = await ctx.author.user() returns; find_one is awaited.
WatchTimeUser ==
    /\ cmd.name = "watch_time"
    /\ cmd.pc = "user"
    /\ cmd' = [cmd EXCEPT !.pc = "find_one"]
    /\ UNCHANGED << viewers_table, loop_pc, loop_time, ticks, task, sampled, skipped, faults,
                    overlapped, last_credit, last_end, reply, reported, cog_vars >>

\* Mutant: find_one is answered from a cache that holds every record as
\* it was created.
WatchTimeFindOne_cached ==
    /\ cmd.name = "watch_time"
    /\ cmd.pc = "find_one"
    /\ cmd' = [cmd EXCEPT !.pc = "reply",
                          !.viewers =
                             IF HasDoc(viewers_table, cmd.author)
                               THEN <<[DocOf(viewers_table, cmd.author)
                                         EXCEPT !.watch_time_mins = 1]>>
                               ELSE <<>>]
    /\ reply' = IF HasDoc(viewers_table, cmd.author)
                  THEN WatchTimeMessage(1) ELSE NoDataMessage
    /\ UNCHANGED << viewers_table, loop_pc, loop_time, ticks, task, sampled, skipped,
                    faults, overlapped, last_credit, last_end, reported, cog_vars >>

\* Mutant: watch_time creates the record it did not find.
WatchTimeFindOne_creates ==
    /\ cmd.name = "watch_time"
    /\ cmd.pc = "find_one"
    /\ cmd' = [cmd EXCEPT !.pc = "reply",
                          !.viewers = IF HasDoc(viewers_table, cmd.author)
                                        THEN <<DocOf(viewers_table, cmd.author)>>
                                        ELSE <<>>]
    /\ reply' = WatchTimeReply(viewers_table, cmd.author)
    /\ viewers_table' =
          IF HasDoc(viewers_table, cmd.author) THEN viewers_table
          ELSE viewers_table \cup
                 {[_id |-> cmd.author, name |-> "", watch_time_mins |-> 0]}
    /\ UNCHANGED << loop_pc, loop_time, ticks, task, sampled, skipped, faults,
                    overlapped, last_credit, last_end, reported, cog_vars >>

\* viewer_data = await find_one({"_id": user.id}) returns; the reply is
\* built from it and ctx.reply is awaited.
WatchTimeFindOne ==
    /\ cmd.name = "watch_time"
    /\ cmd.pc = "find_one"
    /\ cmd' = [cmd EXCEPT !.pc = "reply",
                          !.viewers = IF HasDoc(viewers_table, cmd.author)
                                        THEN <<DocOf(viewers_table, cmd.author)>>
                                        ELSE <<>>]
    /\ reply' = WatchTimeReply(viewers_table, cmd.author)
    /\ UNCHANGED << viewers_table, loop_pc, loop_time, ticks, task, sampled, skipped, faults,
                    overlapped, last_credit, last_end, reported, cog_vars >>

\* !topwatchers: the handler awaits cursor.to_list(length=5).
TopWatchers ==
    /\ cmd = NoCmd
    /\ cmd' = [NoCmd EXCEPT !.name = "top_watchers", !.pc = "to_list"]
    /\ UNCHANGED << viewers_table, loop_pc, loop_time, ticks, task, sampled, skipped, faults,
                    overlapped, last_credit, last_end, reply, reported, cog_vars >>

\* viewers = await cursor.to_list(length=5) returns; the message is built
\* and ctx.reply is awaited.
TopWatchersToList ==
    /\ cmd.name = "top_watchers"
    /\ cmd.pc = "to_list"
    /\ \E cursor \in sort_desc(find_exists(viewers_table)) :
          LET viewers == to_list(cursor, TopLength)
          IN /\ cmd' = [cmd EXCEPT !.pc = "reply", !.viewers = viewers]
             /\ reply' = TopMessage(viewers)
    /\ UNCHANGED << viewers_table, loop_pc, loop_time, ticks, task, sampled, skipped, faults,
                    overlapped, last_credit, last_end, reported, cog_vars >>

\* await ctx.reply(...) returns: the message is in chat, the handler ends.
Replied ==
    /\ cmd.pc = "reply"
    /\ cmd' = NoCmd
    /\ reply' = NoReply
    /\ reported' =
          IF cmd.name = "watch_time" /\ cmd.viewers # <<>>
            THEN [author |-> cmd.author, mins |-> cmd.viewers[1].watch_time_mins]
            ELSE reported
    /\ UNCHANGED << viewers_table, loop_pc, loop_time, ticks, task, sampled, skipped, faults,
                    overlapped, last_credit, last_end, cog_vars >>

\* The collections the commands are explored against: up to MaxDocs
\* documents the sampler has written (unique _id, watch_time_mins >= 1).
QueryIds == 1 .. MaxDocs

QueryTables ==
    { { [_id |-> i, name |-> QueryName(i), watch_time_mins |-> f[i]] : i \in ids } :
        ids \in SUBSET QueryIds, f \in [QueryIds -> QueryMins] }

InitQuery ==
    /\ viewers_table \in QueryTables
    /\ SamplerInit

\* The authors of a command: an account with or without a document.
Authors == 1 .. MaxDocs

NextQuery ==
    \/ \E author \in Authors : WatchTime(author)
    \/ WatchTimeUser
    \/ WatchTimeFindOne
    \/ TopWatchers
    \/ TopWatchersToList
    \/ Replied

SpecQuery == InitQuery /\ [][NextQuery]_vars

\* ------------------------------------- chat commands while the sampler runs

\* The commands are handled by the same event loop as the tasks: their
\* steps interleave with the tasks' steps at every await.  The chat holds
\* the author's account, under either name, and the channel owner.
ChatAuthors == {1, 2}

ChatPresences ==
    { P \in Presences : \A c \in P : c.name \in {"alice", "alicia", channel_name} }

NextChat ==
    \/ WarmUp
    \/ Tick
    \/ \E t \in Slots, info \in BOOLEAN, present \in ChatPresences :
          FetchStreams(t, info, present)
    \/ \E t \in Slots : ChannelUnresolved(t)
    \/ \E t \in Slots : User(t)
    \/ \E t \in Slots : FindOne(t)
    \/ \E t \in Slots : InsertOne(t)
    \/ \E t \in Slots : UpdateOne(t)
    \/ \E t \in Slots : Raise(t)
    \/ \E author \in ChatAuthors : WatchTime(author)
    \/ WatchTimeUser
    \/ WatchTimeFindOne
    \/ TopWatchers
    \/ TopWatchersToList
    \/ Replied

SpecChat == Init /\ [][NextChat]_vars

\* ------------------------------------------------------------ Spotify.song

\* What current_user_playing_track() may return: a track with its artists
\* in order and its link, or None.
Tracks ==
    { [name |-> "Song A", artists |-> <<"Ann">>, spotify |-> "spotify/a"],
      [name |-> "Song B", artists |-> <<"Bob", "Cy">>, spotify |-> "spotify/b"] }

CurrentSongs == Tracks \cup {NoSong}

\* "No song currently playing."
NoSongMessage == [kind |-> "No song currently playing.", args |-> <<>>]

\* f"Currently playing: {item name} by {first artist's name} | {link}"
PlayingMessage(current_song) ==
    [kind |-> "Currently playing: {} by {} | {}",
     args |-> <<current_song.name, current_song.artists[1], current_song.spotify>>]

\* !song: current_user_playing_track() is called (it does not suspend);
\* "if not current_song" awaits the reply that nothing is playing, else
\* the reply with the track is awaited.
Song(current_song) ==
    /\ song_cmd.pc = "none"
    /\ song_cmd' =
          [pc |-> IF current_song = NoSong THEN "reply_none" ELSE "reply_song",
           current_song |-> current_song, sent |-> <<>>, outcome |-> "none"]
    /\ UNCHANGED << watch_vars, redemptions, last_message, coinflip >>

\* await ctx.reply("No song currently playing.") returns.  The if has no
\* return: the handler goes on to build the second message, and
\* current_song['item'] of None raises TypeError.
SongNoneReplied ==
    /\ song_cmd.pc = "reply_none"
    /\ song_cmd' =
          IF song_cmd.current_song = NoSong
            THEN [song_cmd EXCEPT !.pc = "none",
                                  !.sent = Append(@, NoSongMessage),
                                  !.outcome = "raised"]
            ELSE [song_cmd EXCEPT !.pc = "reply_song",
                                  !.sent = Append(@, NoSongMessage)]
    /\ UNCHANGED << watch_vars, redemptions, last_message, coinflip >>

\* await ctx.reply(f"Currently playing: ...") returns; the handler returns.
SongReplied ==
    /\ song_cmd.pc = "reply_song"
    /\ song_cmd' =
          [song_cmd EXCEPT !.pc = "none",
                           !.sent = Append(@, PlayingMessage(song_cmd.current_song)),
                           !.outcome = "returned"]
    /\ UNCHANGED << watch_vars, redemptions, last_message, coinflip >>

\* ------------------------------------------- ChannelPointRewards.get_a_riddle

Handlers == 1 .. MaxRedemptions

\* The messages event_message is called with: an echo of the bot's own
\* message or not, without a custom-reward-id tag or with one.
Messages ==
    [echo : BOOLEAN, reward : {"none", RiddleRewardId, SongRewardId}]

\* What the riddle API may return: a riddle and its answer, each a string
\* with its length.
RiddlePool ==
    { [riddle |-> [text |-> "riddle 1", len |-> 100],
       answer |-> [text |-> "answer 1", len |-> 20]],
      [riddle |-> [text |-> "riddle 2", len |-> 439],
       answer |-> [text |-> "answer 2", len |-> 439]],
      [riddle |-> [text |-> "riddle 3", len |-> 440],
       answer |-> [text |-> "answer 3", len |-> 20]],
      [riddle |-> [text |-> "riddle 4", len |-> 100],
       answer |-> [text |-> "answer 4", len |-> 440]],
      [riddle |-> [text |-> "riddle 5", len |-> 440],
       answer |-> [text |-> "answer 5", len |-> 440]] }

\* len(s)
len(s) == s.len

\* The condition of "while riddle_length > 439 and answer_length > 439".
refetch(riddle_length, answer_length) ==
    riddle_length > MaxRiddleLength /\ answer_length > MaxRiddleLength

\* f"{riddle} You have 30 seconds to guess the answer"
QuestionMessage(riddle) ==
    [kind |-> "{} You have 30 seconds to guess the answer", args |-> <<riddle>>]

\* f"The answer to your riddle was: {answer}"
AnswerMessage(answer) ==
    [kind |-> "The answer to your riddle was: {}", args |-> <<answer>>]

\* Mutant: without "if message.echo: return".
event_message_no_echo_test(h, message) ==
    /\ redemptions[h].pc = "none"
    /\ \A g \in Handlers : redemptions[g].pc = "none" => h <= g
    /\ last_message' = message
    /\ IF message.reward = RiddleRewardId
         THEN redemptions' =
                [redemptions EXCEPT ![h] =
                   [RedemptionIdle EXCEPT !.pc = "get",
                                          !.riddle_length = InitialLength,
                                          !.answer_length = InitialLength]]
         ELSE UNCHANGED redemptions
    /\ UNCHANGED << watch_vars, song_cmd, coinflip >>

\* event_message(message): an echo is ignored; a message whose
\* custom-reward-id is the riddle reward calls get_a_riddle, which sets both
\* lengths to 501, enters its while loop and awaits the first response.
\* The call takes the first free place.
event_message(h, message) ==
    /\ redemptions[h].pc = "none"
    /\ \A g \in Handlers : redemptions[g].pc = "none" => h <= g
    /\ last_message' = message
    /\ IF ~message.echo /\ message.reward = RiddleRewardId
         THEN redemptions' =
                [redemptions EXCEPT ![h] =
                   [RedemptionIdle EXCEPT !.pc = "get",
                                          !.riddle_length = InitialLength,
                                          !.answer_length = InitialLength]]
         ELSE UNCHANGED redemptions
    /\ UNCHANGED << watch_vars, song_cmd, coinflip >>

\* await response.json() returns: riddle, answer and their lengths are
\* assigned and the while condition is tested again; when it is false the
\* question is sent.
RiddleFetched(h, response) ==
    /\ redemptions[h].pc = "get"
    /\ redemptions' =
          [redemptions EXCEPT ![h] =
             [@ EXCEPT !.riddle = response.riddle,
                       !.answer = response.answer,
                       !.riddle_length = len(response.riddle),
                       !.answer_length = len(response.answer),
                       !.pc = IF refetch(len(response.riddle), len(response.answer))
                                THEN "get" ELSE "reply_riddle"]]
    /\ UNCHANGED << watch_vars, song_cmd, last_message, coinflip >>

\* await ctx.reply(question) returns; asyncio.sleep(30) is awaited.
RiddleReplied(h) ==
    /\ redemptions[h].pc = "reply_riddle"
    /\ redemptions' =
          [redemptions EXCEPT ![h] =
             [@ EXCEPT !.sent = Append(@, QuestionMessage(redemptions[h].riddle)),
                       !.pc = "sleep30"]]
    /\ UNCHANGED << watch_vars, song_cmd, last_message, coinflip >>

\* await asyncio.sleep(30) returns; the answer is sent.
RiddleSlept(h) ==
    /\ redemptions[h].pc = "sleep30"
    /\ redemptions' =
          [redemptions EXCEPT ![h] =
             [@ EXCEPT !.waited = @ + AnswerDelay, !.pc = "reply_answer"]]
    /\ UNCHANGED << watch_vars, song_cmd, last_message, coinflip >>

\* await ctx.reply(answer) returns; get_a_riddle returns.
AnswerReplied(h) ==
    /\ redemptions[h].pc = "reply_answer"
    /\ redemptions' =
          [redemptions EXCEPT ![h] =
             [@ EXCEPT !.sent = Append(@, AnswerMessage(redemptions[h].answer)),
                       !.pc = "none"]]
    /\ UNCHANGED << watch_vars, song_cmd, last_message, coinflip >>

\* The handlers of the two cogs run on one event loop and interleave at
\* their awaits.
NextCogs ==
    \/ \E current_song \in CurrentSongs : Song(current_song)
    \/ SongNoneReplied
    \/ SongReplied
    \/ \E h \in Handlers, message \in Messages : event_message(h, message)
    \/ \E h \in Handlers, response \in RiddlePool : RiddleFetched(h, response)
    \/ \E h \in Handlers : RiddleReplied(h)
    \/ \E h \in Handlers : RiddleSlept(h)
    \/ \E h \in Handlers : AnswerReplied(h)

SpecCogs == Init /\ [][NextCogs]_vars

\* ------------------------- ChannelPointRewards.create_coin_flip_prediction

\* "prediction event already active, only one allowed at a time"
AlreadyActive == "prediction event already active, only one allowed at a time"

\* The prediction Twitch may have created for the two outcomes of the
\* request: its id, and the outcomes with their ids in either order.
PredictionData ==
    { [id |-> p, outcomes |-> o] :
        p \in {"prediction 1", "prediction 2"},
        o \in { << [id |-> "outcome 1", title |-> "Heads"],
                   [id |-> "outcome 2", title |-> "Tails"] >>,
                << [id |-> "outcome 2", title |-> "Heads"],
                   [id |-> "outcome 1", title |-> "Tails"] >>,
                << [id |-> "outcome 1", title |-> "Tails"],
                   [id |-> "outcome 2", title |-> "Heads"] >>,
                << [id |-> "outcome 2", title |-> "Tails"],
                   [id |-> "outcome 1", title |-> "Heads"] >> } }

\* What the POST may be answered with: status 200 with the prediction, or
\* an error status with a message and no "data".
PostResponses ==
    { [status |-> StatusOk, message |-> "", data |-> <<d>>] : d \in PredictionData }
    \cup { [status |-> 400, message |-> AlreadyActive, data |-> <<>>],
           [status |-> 400, message |-> "bad request", data |-> <<>>],
           [status |-> 401, message |-> "", data |-> <<>>] }

\* random.choice(["Heads", "Tails"])
Results == {"Heads", "Tails"}

\* str.lower() of the titles and results that occur.
lower(s) ==
    CASE s = "Heads" -> "heads"
      [] s = "Tails" -> "tails"
      [] OTHER -> s

\* The for loop over prediction_data["outcomes"]: the id of the outcomes
\* whose lower-cased title is the given one, the last of them winning;
\* found is the value before the loop.
RECURSIVE response_id(_, _, _)
response_id(outcomes, title, found) ==
    IF outcomes = <<>> THEN found
    ELSE response_id(Tail(outcomes), title,
                     IF lower(Head(outcomes).title) = title
                       THEN Head(outcomes).id ELSE found)

\* Mutant: the two cases of the match statement exchanged.
outcome_id_exchanged(result, heads_id, tails_id) ==
    IF lower(result) = "heads" THEN tails_id ELSE heads_id

\* "match result.lower()": heads_id for "heads", tails_id for "tails".
outcome_id(result, heads_id, tails_id) ==
    IF lower(result) = "heads" THEN heads_id ELSE tails_id

\* The messages create_coin_flip_prediction sends to the channel.
UnderwayMessage == [kind |-> "A prediction is already underway!", args |-> <<>>]

ErrorMessage ==
    [kind |-> "An error occurred because @Riddlerrr cannot make a good bot.",
     args |-> <<>>]

ResultMessage(result) == [kind |-> "The result is {}!", args |-> <<result>>]

\* The PATCH request that resolves a prediction.
ResolveRequest(prediction_id, winning_outcome_id) ==
    [id |-> prediction_id, status |-> "RESOLVED",
     winning_outcome_id |-> winning_outcome_id]

\* Lines 148 to 159: prediction_data = response_json["data"][0] raises when
\* the response has no data; else the ids are taken from the outcomes and
\* asyncio.sleep(60) is awaited.
AfterStatusTest(c) ==
    IF c.response.data = <<>>
      THEN [c EXCEPT !.pc = "none", !.outcome = "raised"]
      ELSE [c EXCEPT !.pc = "sleep60",
                     !.prediction_id = c.response.data[1].id,
                     !.heads_id =
                        response_id(c.response.data[1].outcomes, "heads", "None"),
                     !.tails_id =
                        response_id(c.response.data[1].outcomes, "tails", "None")]

\* event_pubsub_channel_points(event): the coin-flip reward calls
\* create_coin_flip_prediction, which awaits its POST request.
ChannelPoints(reward) ==
    /\ coinflip.pc = "none"
    /\ IF reward = CoinflipRewardId
         THEN coinflip' = [CoinflipIdle EXCEPT !.pc = "post"]
         ELSE UNCHANGED coinflip
    /\ UNCHANGED << watch_vars, song_cmd, redemptions, last_message >>

\* response_json = await response.json() returns.  A status other than 200
\* sends one of two messages; status 200 goes on to the sleep.
PostReturned(response) ==
    /\ coinflip.pc = "post"
    /\ coinflip' =
          IF response.status # StatusOk
            THEN IF response.message # "" /\ response.message = AlreadyActive
                   THEN [coinflip EXCEPT !.response = response,
                                         !.pc = "send_underway"]
                   ELSE [coinflip EXCEPT !.response = response,
                                         !.pc = "send_error"]
            ELSE AfterStatusTest([coinflip EXCEPT !.response = response])
    /\ UNCHANGED << watch_vars, song_cmd, redemptions, last_message >>

\* await send("A prediction is already underway!") returns; this branch
\* has no return, so the code after the status test runs.
UnderwaySent ==
    /\ coinflip.pc = "send_underway"
    /\ coinflip' =
          AfterStatusTest([coinflip EXCEPT !.sent = Append(@, UnderwayMessage)])
    /\ UNCHANGED << watch_vars, song_cmd, redemptions, last_message >>

\* await send("An error occurred ...") returns; return.
ErrorSent ==
    /\ coinflip.pc = "send_error"
    /\ coinflip' = [coinflip EXCEPT !.sent = Append(@, ErrorMessage),
                                   !.pc = "none",
                                   !.outcome = "returned"]
    /\ UNCHANGED << watch_vars, song_cmd, redemptions, last_message >>

\* await asyncio.sleep(60) returns: the result is drawn, the outcome id
\* chosen and the PATCH request issued.
CoinflipSlept(result) ==
    /\ coinflip.pc = "sleep60"
    /\ coinflip' =
          [coinflip EXCEPT
             !.waited = @ + PredictionWindow,
             !.result = result,
             !.patches =
                Append(@, ResolveRequest(coinflip.prediction_id,
                                         outcome_id(result, coinflip.heads_id,
                                                    coinflip.tails_id))),
             !.pc = "patch"]
    /\ UNCHANGED << watch_vars, song_cmd, redemptions, last_message >>

\* The PATCH request is answered; the result is sent to the channel.
PatchReturned ==
    /\ coinflip.pc = "patch"
    /\ coinflip' = [coinflip EXCEPT !.pc = "send_result"]
    /\ UNCHANGED << watch_vars, song_cmd, redemptions, last_message >>

\* await send(f"The result is {result}!") returns; the coroutine returns.
ResultSent ==
    /\ coinflip.pc = "send_result"
    /\ coinflip' = [coinflip EXCEPT !.sent = Append(@, ResultMessage(coinflip.result)),
                                   !.pc = "none",
                                   !.outcome = "returned"]
    /\ UNCHANGED << watch_vars, song_cmd, redemptions, last_message >>

NextCoinflip ==
    \/ \E reward \in {CoinflipRewardId, RiddleRewardId} : ChannelPoints(reward)
    \/ \E response \in PostResponses : PostReturned(response)
    \/ UnderwaySent
    \/ ErrorSent
    \/ \E result \in Results : CoinflipSlept(result)
    \/ PatchReturned
    \/ ResultSent

SpecCoinflip == Init /\ [][NextCoinflip]_vars

\* ================================================================ claims

\* No _update_watch_times task is unfinished and at least one has run.
Quiescent == ticks > 0 /\ Running = {}

\* C1 (as claimed).  Concurrent-tick safety: when ticks have overlapped and
\* no awaited call has raised, then once every tick has finished each
\* viewer's watch_time_mins has grown by exactly one per tick that sampled
\* the viewer as creditable: by 2 for two overlapping ticks that both
\* sampled it, whether or not the viewer had a record before.
C1_ConcurrentTickSafety ==
    (Quiescent /\ ~faults /\ overlapped) =>
        \A i \in ViewerIds :
            MinsOf(viewers_table, i) = Cardinality(sampled[i])

\* The step in which a task's fetch_streams returns an empty result.
FetchesOffline(t) == \E present \in Presences : FetchStreams(t, FALSE, present)

\* C2.  Offline no-op: in every step in which a tick's fetch_streams
\* returns an empty result, whatever chatters are present, the collection
\* is left as it is and the tick has ended, so it never writes.
C2_OfflineNoOp ==
    [][ \A t \in Slots :
          FetchesOffline(t) =>
              /\ viewers_table' = viewers_table
              /\ task'[t] = Idle ]_vars

\* A tick has found the channel offline and ended while the collection
\* holds a record it could have credited.
C2_Witness ==
    /\ last_end = "offline"
    /\ Running = {}
    /\ viewers_table # {}

\* watch_time_mins of a document never decreases in a step.
NonDecreasing ==
    \A d \in viewers_table :
        \E e \in viewers_table' :
            e._id = d._id /\ e.watch_time_mins >= d.watch_time_mins

\* C3.  Monotonicity: in every state no watch_time_mins is negative, and
\* in every step of the ticks (overlapping or not, ending normally or by
\* an exception) and of the chat commands, no record's watch_time_mins
\* decreases.
C3_Monotonic ==
    /\ [](\A d \in viewers_table : d.watch_time_mins >= 0)
    /\ [][NonDecreasing]_vars

\* A record has been credited twice, a tick has ended by an exception and a
\* chat command is being handled.
C3_Witness ==
    /\ \E d \in viewers_table : d.watch_time_mins >= 2
    /\ last_end = "failed"
    /\ cmd.pc = "reply"

\* C4.  Credit counting: when ticks do not overlap and none fails, once the
\* ticks so far have finished every viewer's watch_time_mins is the number
\* of ticks at which the channel was live and the viewer present and not
\* excluded, and the stored name is the name observed last.
C4_CreditCounting ==
    Quiescent =>
        \A i \in ViewerIds :
            /\ MinsOf(viewers_table, i) = Cardinality(sampled[i])
            /\ HasDoc(viewers_table, i) =>
                   DocOf(viewers_table, i).name = last_credit[i].name

\* Account 1, without a record at first, was credited as "alice" at ticks
\* 1, 2 and 3, not at tick 4, and again at tick 5: it has 4 minutes.
C4_Witness ==
    /\ Quiescent
    /\ ticks = 5
    /\ sampled[1] = {1, 2, 3, 5}
    /\ [_id |-> 1, name |-> "alice", watch_time_mins |-> 4] \in viewers_table

\* The step in which task t's insert_one or update_one returns normally.
WriteReturns(t) ==
    /\ task[t].pc \in {"insert_one", "update_one"}
    /\ task'[t] # task[t]
    /\ ~(task'[t] = Idle /\ last_end' = "failed")

\* The collection after chatter c has been credited once.
CreditOf(c) ==
    IF ~HasDoc(viewers_table, c.id)
      THEN viewers_table' =
             viewers_table \cup {[_id |-> c.id, name |-> c.name, watch_time_mins |-> 1]}
      ELSE LET old == DocOf(viewers_table, c.id)
           IN viewers_table' =
                (viewers_table \ {old}) \cup
                  {[_id |-> c.id, name |-> c.name,
                    watch_time_mins |-> old.watch_time_mins + 1]}

\* C5.  Upsert-and-increment: every credit of a viewer without a record
\* creates exactly one record, with watch_time_mins 1 and the observed
\* name; every credit of a viewer with a record sets its name to the
\* observed name and adds exactly 1; nothing else in the collection changes.
C5_UpsertIncrement ==
    [][ \A t \in Slots : WriteReturns(t) => CreditOf(task[t].chatter) ]_vars

\* Account 1 had no record, was credited by tick 1 and then by tick 2, the
\* second time under another name: it has 2 minutes and the second name.
C5_Witness ==
    /\ sampled[1] = {1, 2}
    /\ Quiescent
    /\ \E d \in viewers_table :
          /\ d._id = 1
          /\ d.watch_time_mins = 2
          /\ d.name = last_credit[1].name
          /\ last_credit[1].tick = 2

\* The names the exclusion policy names: the channel owner, the bot, and
\* the entries of bot_list.
ExcludedNames ==
    {channel_name, bot_name} \cup { bot_list[i] : i \in 1 .. Len(bot_list) }

\* Lower-casing of the names the model's chatters have.
LowerCase(name) == IF name = "Riddlerrr" THEN "riddlerrr" ELSE name

C7_NameFreshness ==
    Quiescent =>
        \A i \in ViewerIds :
            HasDoc(viewers_table, i) =>
                DocOf(viewers_table, i).name = last_credit[i].name

\* The documents of a sequence, as a set.
Range(seq) == { seq[i] : i \in 1 .. Len(seq) }

\* top_watchers has its viewers and is sending its reply.
TopReplying == cmd.name = "top_watchers" /\ cmd.pc = "reply"

\* C8.  Leaderboard ranking: top_watchers lists min(5, number of records)
\* distinct records, in non-increasing order of watch_time_mins, and no
\* record left out has strictly more watch_time_mins than a listed one;
\* the reply names them in that order.
C8_LeaderboardRanking ==
    TopReplying =>
        LET v == cmd.viewers
            n == Cardinality(viewers_table)
        IN /\ Len(v) = IF n < 5 THEN n ELSE 5
           /\ Range(v) \subseteq viewers_table
           /\ \A i, j \in 1 .. Len(v) :
                 /\ i # j => v[i] # v[j]
                 /\ i < j => v[i].watch_time_mins >= v[j].watch_time_mins
           /\ \A d \in viewers_table \ Range(v) :
                 \A i \in 1 .. Len(v) : d.watch_time_mins <= v[i].watch_time_mins
           /\ Len(reply.args) = Len(v)
           /\ \A i \in 1 .. Len(v) :
                 reply.args[i].rank = i /\ reply.args[i].name = v[i].name

\* Six records, the leader alone at 120 minutes and a tie at 90 across the
\* cut: a record with 90 minutes is listed fifth and another is left out.
C8_Witness ==
    /\ TopReplying
    /\ Cardinality(viewers_table) = 6
    /\ Len(cmd.viewers) = 5
    /\ cmd.viewers[1].watch_time_mins = 120
    /\ cmd.viewers[2].watch_time_mins = 90
    /\ \E d \in viewers_table \ Range(cmd.viewers) :
          d.watch_time_mins = cmd.viewers[5].watch_time_mins

\* The step in which find_one returns to watch_time with no document.
FindsNothing ==
    /\ cmd.name = "watch_time"
    /\ cmd.pc = "find_one"
    /\ cmd'.pc = "reply"
    /\ ~HasDoc(viewers_table, cmd.author)

\* C9.  watch_time of a requester without a record replies "No data
\* found!", without hours or minutes, creates no record, and the handler
\* then ends with that one reply.
C9_NoData ==
    [][ /\ FindsNothing =>
            /\ reply'.kind = "No data found!"
            /\ Len(reply'.args) = 0
            /\ viewers_table' = viewers_table
        /\ (cmd.name = "watch_time" /\ cmd.pc = "reply") =>
            /\ cmd' = NoCmd
            /\ viewers_table' = viewers_table ]_vars

\* The requester has no record while others have; "No data found!" is
\* being sent.
C9_Witness ==
    /\ cmd.name = "watch_time"
    /\ cmd.pc = "reply"
    /\ ~HasDoc(viewers_table, cmd.author)
    /\ viewers_table # {}
    /\ reply.kind = "No data found!"

\* H hours and M minutes are exactly m minutes.
Exact(H, M, m) == 60 * H + M = m /\ 0 <= M /\ M < 60

\* C10.  Exact conversion: the hours H and minutes M that watch_time and
\* top_watchers report for a record with watch_time_mins = m satisfy
\* 60*H + M = m and 0 <= M < 60.
C10_ExactConversion ==
    /\ (cmd.name = "watch_time" /\ cmd.pc = "reply" /\ cmd.viewers # <<>>) =>
          Exact(reply.args[1], reply.args[2], cmd.viewers[1].watch_time_mins)
    /\ TopReplying =>
          \A i \in 1 .. Len(cmd.viewers) :
              Exact(reply.args[i].hours, reply.args[i].minutes,
                    cmd.viewers[i].watch_time_mins)

\* watch_time is reporting 1 hour and 30 minutes for a record of 90 minutes.
C10_Witness ==
    /\ cmd.name = "watch_time"
    /\ cmd.pc = "reply"
    /\ cmd.viewers # <<>>
    /\ cmd.viewers[1].watch_time_mins = 90
    /\ reply.args = <<1, 30>>

\* The step in which task t ends by an exception.
Fails(t) ==
    /\ Unfinished(t)
    /\ task'[t] = Idle
    /\ last_end' = "failed"

\* The loop can create the next task (within the explored bounds).
CanTick ==
    /\ loop_pc = "sleep60"
    /\ ticks < MaxTicks
    /\ Cardinality(Running) < MaxRunning

\* C11.  Tick failure isolation: the step in which a task ends by an
\* exception, at whatever await it was, leaves start_watch_time_tracker
\* where it is; the loop is always at one of its two sleeps, never ended,
\* and whenever it is in asyncio.sleep(60) the next task can be created.
C11_TickFailureIsolation ==
    /\ [][ \A t \in Slots :
              Fails(t) => /\ loop_pc' = loop_pc
                          /\ loop_time' = loop_time
                          /\ ticks' = ticks ]_vars
    /\ [](loop_pc \in {"sleep5", "sleep60"})
    /\ [](CanTick => ENABLED Tick)

\* The only task so far has ended by an exception that an awaited call
\* raised; the loop is in asyncio.sleep(60) and the next task can be created.
C11_Witness ==
    /\ ticks = 1
    /\ Running = {}
    /\ last_end = "failed"
    /\ faults
    /\ loop_pc = "sleep60"
    /\ ENABLED Tick

\* C12 (as claimed).  Per-viewer failure isolation: when the processing of
\* one viewer fails (chatter.user(), find_one, insert_one or update_one
\* raises), the tick goes on with the viewers it has not processed yet, so
\* a tick never ends by that failure while surviving viewers of its
\* snapshot are still to be credited.
C12_PerViewerIsolation ==
    [][ \A t \in Slots :
          (InLoopBody(t) /\ Fails(t)) => task[t].chatters = {} ]_vars

\* The ids tick n has written a credit for and no later tick has.
CreditedBy(n) == { i \in ViewerIds : last_credit[i].tick = n }

\* C13 (as claimed).  A failed tick yields zero credits: when a tick ends
\* by an exception, the collection holds no credit that tick wrote.
C13_FailedTickZeroCredits ==
    [][ \A t \in Slots : Fails(t) => CreditedBy(task[t].tick) = {} ]_vars

\* C14.  Non-blocking scheduling: whenever the loop is in asyncio.sleep(60)
\* while a task is unfinished, the next task can be created (the timer is
\* not held back), and the step that creates it leaves every unfinished
\* task as it is and adds one new task that has not run yet.
C14_NonBlockingScheduling ==
    /\ []((CanTick /\ Running # {}) => ENABLED Tick)
    /\ [][ ticks' = ticks + 1 =>
              /\ \A t \in Running : task'[t] = task[t]
              /\ \E t \in Slots \ Running :
                    /\ task'[t].pc = "fetch_streams"
                    /\ task'[t].tick = ticks' ]_vars

\* The work of tick 1 is still in its for loop when tick 2 has been
\* initiated: two ticks' work is in progress at the same time.
C14_Witness ==
    /\ loop_pc = "sleep60"
    /\ ticks = 2
    /\ \E t, u \in Running :
          /\ task[t].tick = 1 /\ InLoopBody(t)
          /\ task[u].tick = 2

\* C15.  Ledger key uniqueness: in every reachable state of the collection,
\* also after overlapping ticks that both found no record of the same
\* viewer, no two records have the same _id.
C15_KeyUniqueness ==
    \A d, e \in viewers_table : d._id = e._id => d = e

\* Two overlapping ticks both found no record of account 1 and both
\* called insert_one: the second call was refused (the task ended by
\* DuplicateKeyError, no awaited call having failed otherwise).
C15_Witness ==
    /\ overlapped
    /\ ~faults
    /\ last_end = "failed"
    /\ HasDoc(viewers_table, 1)
    /\ sampled[1] = {1, 2}

\* A step of a chat command: the handler starts, an await of it returns,
\* or it ends.
CommandStep == cmd' # cmd

\* C16.  The query surface is read-only: every step of watch_time and of
\* top_watchers, for any requester, any collection and at any point
\* between the steps of running ticks, leaves the collection as it is.
C16_QueriesReadOnly ==
    [][ CommandStep => viewers_table' = viewers_table ]_vars

\* watch_time of a requester without a record is replying while a tick is
\* in its for loop and the collection holds a record.
C16_Witness ==
    /\ cmd.name = "watch_time"
    /\ cmd.pc = "reply"
    /\ ~HasDoc(viewers_table, cmd.author)
    /\ viewers_table # {}
    /\ \E t \in Slots : InLoopBody(t)

\* C17.  Excluded identities are never credited: every record a step
\* creates or updates carries a name that is not exactly the channel
\* name, the bot name or an entry of bot_list; so the name of the credit
\* the sampler wrote last for an id is never one of those names, and no
\* record of the collection has one.
C17_ExcludedNeverCredited ==
    /\ [][ \A d \in viewers_table' \ viewers_table :
              d.name \notin ExcludedNames ]_vars
    /\ [](\A i \in ViewerIds :
             last_credit[i].tick > 0 => last_credit[i].name \notin ExcludedNames)
    /\ [](\A d \in viewers_table : d.name \notin ExcludedNames)

\* The first tick skipped a chatter of its snapshot, credited account 1
\* and returned; the accounts of the bot and of bot_list have no record.
C17_Witness ==
    /\ ticks = 1
    /\ Quiescent
    /\ skipped
    /\ last_end = "done"
    /\ last_credit[1].tick = 1
    /\ ~HasDoc(viewers_table, 3)
    /\ ~HasDoc(viewers_table, 4)

\* C18.  The sampler never stops or pauses on its own: under fair
\* scheduling every initiation of a tick, and the activation, is followed
\* by the initiation of the next tick, whatever the earlier ticks did
\* (returned, found the channel offline, raised), for every tick of the
\* explored range.
C18_NeverStops ==
    \A n \in 0 .. MaxTicks - 1 : (ticks = n) ~> (ticks = n + 1)

\* Tick 1 found the channel offline and ended; tick 2 has been initiated
\* all the same.
C18_Witness ==
    /\ ticks = 2
    /\ last_end = "offline"
    /\ viewers_table # {}
    /\ Cardinality(Running) = 1
    /\ \E t \in Running : task[t].tick = 2 /\ task[t].pc = "fetch_streams"

\* C19.  Warm-up then fixed period: no tick is initiated while the loop has
\* waited less than the warm-up delay; the first tick is initiated when it
\* has waited exactly that delay, and every later tick when it has waited
\* exactly one tick period more than at the previous initiation.
C19_WarmUpThenPeriod ==
    /\ [](ticks = 0 <=> loop_time < WarmUpDelay)
    /\ [](ticks >= 1 => loop_time = WarmUpDelay + TickPeriod * (ticks - 1))
    /\ [][ ticks' # ticks =>
              /\ ticks' = ticks + 1
              /\ loop_time' - loop_time =
                    IF ticks = 0 THEN WarmUpDelay ELSE TickPeriod ]_vars

\* Tick 2 has been initiated at time 65, tick 1 (initiated at time 5)
\* being still unfinished.
C19_Witness ==
    /\ ticks = 2
    /\ loop_time = 65
    /\ \E t \in Running : task[t].tick = 1

\* C20.  Tick ordering: the loop initiates the ticks one at a time, each
\* new task being tick N+1 when N ticks have been initiated, so the ticks
\* in progress bear distinct numbers that are at most the number initiated
\* and a new tick's number exceeds that of every tick still in progress;
\* the count of initiated ticks never decreases.
C20_TickOrdering ==
    /\ [](\A t, u \in Running : task[t].tick = task[u].tick => t = u)
    /\ [](\A t \in Running : task[t].tick \in 1 .. ticks)
    /\ [][ /\ ticks' \in {ticks, ticks + 1}
           /\ \A t \in Slots :
                 (task[t] = Idle /\ task'[t] # Idle) =>
                     /\ ticks' = ticks + 1
                     /\ task'[t].tick = ticks'
                     /\ \A u \in Running : task[u].tick < ticks' ]_vars

\* Tick 2 has been initiated and has ended while tick 1 is still
\* unfinished: completion did not follow the order of initiation.
C20_Witness ==
    /\ ticks = 2
    /\ last_end # "none"
    /\ Cardinality(Running) = 1
    /\ \E t \in Running : task[t].tick = 1

\* C21 (as claimed).  Concurrent upserts within a tick: the operations of
\* the surviving viewers of one tick are all started without waiting for
\* another viewer's, so while a call for one viewer is awaited no other
\* surviving viewer of that tick is still waiting for its turn.
C21_ConcurrentUpserts ==
    \A t \in Slots : InLoopBody(t) => task[t].chatters = {}

\* The fields of a document of the collection.
Fields == {"_id", "name", "watch_time_mins"}

\* C22.  Lazy creation and record shape: a record of an id that had none
\* appears only in the step in which a tick's insert_one for that viewer
\* returns, and it is then {_id, observed name, 1}; every record of the
\* collection has exactly the fields _id, name and watch_time_mins, the
\* last a natural number that is at least 1.
C22_LazyCreationAndShape ==
    /\ [][ \A d \in viewers_table' :
              ~HasDoc(viewers_table, d._id) =>
                  \E t \in Slots :
                      /\ task[t].pc = "insert_one"
                      /\ task[t].chatter.id = d._id
                      /\ DOMAIN d = Fields
                      /\ d.name = task[t].chatter.name
                      /\ d.watch_time_mins = 1 ]_vars
    /\ [](\A d \in viewers_table :
             /\ DOMAIN d = Fields
             /\ d.watch_time_mins \in Nat
             /\ d.watch_time_mins >= 1)

\* Account 2 got its record, with 1 minute, from the first tick, while
\* the accounts never credited (1, 3 and 4) have none.
C22_Witness ==
    /\ last_credit[2].tick = 1
    /\ [_id |-> 2, name |-> "Riddlerrr", watch_time_mins |-> 1] \in viewers_table
    /\ ~HasDoc(viewers_table, 1)
    /\ ~HasDoc(viewers_table, 3)
    /\ ~HasDoc(viewers_table, 4)

\* The _id values that have a record.
Keys(table) == { d._id : d \in table }

\* C23.  No deletion: no step of a tick or of a chat command removes a
\* record or changes its _id; every _id that has a record before a step
\* has one after it.
C23_NoDeletion ==
    [][ Keys(viewers_table) \subseteq Keys(viewers_table') ]_vars

\* The record of account 1 has been updated by a tick that returned, and
\* top_watchers is replying.
C23_Witness ==
    /\ MinsOf(viewers_table, 1) >= 2
    /\ last_end = "done"
    /\ cmd.name = "top_watchers"
    /\ cmd.pc = "reply"

\* The record of id i, or its absence, is not the same after the step.
Changed(i) ==
    { d \in viewers_table : d._id = i } # { d \in viewers_table' : d._id = i }

\* C24.  Frame of a tick: a step changes the record of at most one id, and
\* then it is the step of a tick writing for a chatter with that id whose
\* name is not excluded and who, as long as the observer records it, was
\* in that tick's own sample; the record of every other viewer is left as
\* it is, in existence, name and watch_time_mins.
C24_TickFrame ==
    [][ /\ \A i, j \in ViewerIds : (Changed(i) /\ Changed(j)) => i = j
        /\ Keys(viewers_table') \subseteq ViewerIds
        /\ \A i \in ViewerIds :
              Changed(i) =>
                  \E t \in Slots :
                      /\ task[t].pc \in {"insert_one", "update_one"}
                      /\ task[t].chatter.id = i
                      /\ ~is_excluded(task[t].chatter.name)
                      /\ ~faults => task[t].tick \in sampled[i] ]_vars

\* The first tick sampled and credited account 2 only; the record of
\* account 1, absent from the snapshot, is as earlier runs left it.
C24_Witness ==
    /\ ticks = 1
    /\ Quiescent
    /\ ~faults
    /\ sampled[1] = {0}
    /\ sampled[2] = {1}
    /\ viewers_table =
          { [_id |-> 1, name |-> "alice", watch_time_mins |-> 1],
            [_id |-> 2, name |-> "Riddlerrr", watch_time_mins |-> 1] }

\* No insert_one can have been refused: no account without a record from
\* earlier runs has been sampled by two ticks.
NoInsertRace ==
    \A j \in ViewerIds : 0 \notin sampled[j] => Cardinality(sampled[j]) <= 1

\* C25.  Atomic add on existing records: every update_one that returns
\* adds 1 to the watch_time_mins the record has at that moment, whatever
\* other ticks have read or written since this tick's find_one; so when
\* overlapping ticks have all ended, none by an exception, a record that
\* existed before them has grown by exactly one per tick that sampled
\* its viewer: by 2 for two ticks.
C25_AtomicAdd ==
    /\ [][ \A t \in Slots :
              (task[t].pc = "update_one" /\ WriteReturns(t)) =>
                  MinsOf(viewers_table', task[t].chatter.id) =
                      MinsOf(viewers_table, task[t].chatter.id) + 1 ]_vars
    /\ []((Quiescent /\ ~faults /\ overlapped /\ NoInsertRace) =>
             \A i \in ViewerIds :
                 0 \in sampled[i] =>
                     MinsOf(viewers_table, i) = Cardinality(sampled[i]))

\* Account 1 had a record with 1 minute; two overlapping ticks both found
\* it and both updated it: it has 3 minutes.
C25_Witness ==
    /\ Quiescent
    /\ ~faults
    /\ overlapped
    /\ NoInsertRace
    /\ sampled[1] = {0, 1, 2}
    /\ MinsOf(viewers_table, 1) = 3

\* watch_time is sending a reply with a total.
ReportsTotal ==
    /\ cmd.name = "watch_time"
    /\ cmd.pc = "reply"
    /\ cmd.viewers # <<>>

\* C26.  Reads concurrent with sampler writes are consistent: the total a
\* watch_time query reports is the watch_time_mins the requester's record
\* has at the moment find_one returns, between two steps of the running
\* ticks (so the total before or after a credit, each credit being one
\* step); and of two successive queries of the same viewer, the second
\* sent after the first was answered, the second never reports a smaller
\* total, nor "No data found!" after a total.
C26_ConsistentReads ==
    /\ [][ (cmd.name = "watch_time" /\ cmd.pc = "find_one" /\ cmd'.pc = "reply") =>
              /\ HasDoc(viewers_table, cmd.author) =>
                    /\ cmd'.viewers = <<DocOf(viewers_table, cmd.author)>>
                    /\ reply'.args =
                          <<Hours(MinsOf(viewers_table, cmd.author)),
                            Minutes(MinsOf(viewers_table, cmd.author))>>
              /\ ~HasDoc(viewers_table, cmd.author) => cmd'.viewers = <<>> ]_vars
    /\ [](ReportsTotal =>
             cmd.viewers[1].watch_time_mins <= MinsOf(viewers_table, cmd.author))
    /\ []((cmd.name = "watch_time" /\ cmd.pc = "reply"
               /\ reported.author = cmd.author) =>
             /\ cmd.viewers # <<>>
             /\ cmd.viewers[1].watch_time_mins >= reported.mins)

\* The requester was told a total, a tick then credited the requester,
\* and the next query of the same requester reports the larger total
\* while a tick is unfinished.
C26_Witness ==
    /\ ReportsTotal
    /\ reported.author = cmd.author
    /\ cmd.viewers[1].watch_time_mins > reported.mins
    /\ Running # {}

\* C27.  At most one credit per viewer per tick: the chatter a tick is
\* processing is not met again by that tick, under that or another name;
\* so after k ticks have been initiated no viewer's watch_time_mins
\* exceeds k plus the minute earlier runs may have left, and, as long as
\* the observer records the samples, it does not exceed one per tick that
\* sampled the viewer.
C27_OneCreditPerTick ==
    /\ \A t \in Slots :
          InLoopBody(t) =>
              \A c \in task[t].chatters : c.id # task[t].chatter.id
    /\ \A i \in ViewerIds :
          /\ MinsOf(viewers_table, i) <= ticks + 1
          /\ ~faults => MinsOf(viewers_table, i) <= Cardinality(sampled[i])

\* Account 2, without a record at first, was sampled and credited by each
\* of the two ticks: it has exactly 2 minutes after 2 ticks.
C27_Witness ==
    /\ ticks = 2
    /\ Quiescent
    /\ ~faults
    /\ sampled[2] = {1, 2}
    /\ MinsOf(viewers_table, 2) = 2

\* C28 (as claimed).  The song command: when it has ended it has returned
\* without raising and has sent exactly one reply, "No song currently
\* playing." when nothing is playing and otherwise the message with the
\* track's name, its first artist and its link.
C28_SongReplies ==
    (song_cmd.pc = "none" /\ song_cmd.outcome # "none") =>
        /\ song_cmd.outcome = "returned"
        /\ song_cmd.sent =
              IF song_cmd.current_song = NoSong
                THEN <<NoSongMessage>>
                ELSE <<PlayingMessage(song_cmd.current_song)>>

\* The get_a_riddle calls that have not returned.
ActiveRedemptions == { h \in Handlers : redemptions[h].pc # "none" }

\* C29.  Riddle redemption ordering: a get_a_riddle call has sent nothing
\* while it fetches, exactly the question of its riddle while it waits and
\* while it sends the answer, and when it has returned exactly the
\* question and then the answer of that same riddle, having waited 30
\* seconds between them; a call starts only in the step in which
\* event_message gets a message that is not an echo and has the riddle
\* reward id, one call per message, and an echo or another reward id
\* changes no call.
C29_RiddleOrdering ==
    /\ [](\A h \in Handlers :
             LET r == redemptions[h]
             IN /\ r.pc \in {"get", "reply_riddle"} => r.sent = <<>>
                /\ r.pc = "sleep30" =>
                      r.sent = <<QuestionMessage(r.riddle)>> /\ r.waited = 0
                /\ r.pc = "reply_answer" =>
                      r.sent = <<QuestionMessage(r.riddle)>> /\ r.waited = AnswerDelay
                /\ r.pc = "none" =>
                      \/ r = RedemptionIdle
                      \/ /\ r.sent = <<QuestionMessage(r.riddle),
                                        AnswerMessage(r.answer)>>
                         /\ r.waited = AnswerDelay
                /\ r.sent # <<>> =>
                      \E response \in RiddlePool :
                          response.riddle = r.riddle /\ response.answer = r.answer)
    /\ [][ /\ ActiveRedemptions' \ ActiveRedemptions # {} =>
                /\ ~last_message'.echo
                /\ last_message'.reward = RiddleRewardId
                /\ Cardinality(ActiveRedemptions') =
                      Cardinality(ActiveRedemptions) + 1
           /\ (last_message' # last_message /\
                 (last_message'.echo \/ last_message'.reward # RiddleRewardId)) =>
                redemptions' = redemptions ]_vars

\* One redemption has been answered in full, a later one, of another
\* riddle, is in its 30 seconds, and the message that came last, an echo
\* with the riddle reward id, started nothing.
C29_Witness ==
    /\ last_message = [echo |-> TRUE, reward |-> RiddleRewardId]
    /\ \E h, g \in Handlers :
          /\ redemptions[h].pc = "none"
          /\ Len(redemptions[h].sent) = 2
          /\ redemptions[g].pc = "sleep30"
          /\ redemptions[g].riddle # redemptions[h].riddle

\* C30 (as claimed).  Riddle length filter: the riddle and the answer a
\* get_a_riddle call sends are each at most 439 characters long.
C30_RiddleLength ==
    \A h \in Handlers :
        \A i \in 1 .. Len(redemptions[h].sent) :
            len(redemptions[h].sent[i].args[1]) <= MaxRiddleLength

\* The title of the outcome of the created prediction that has this id.
TitleOf(data, id) ==
    LET i == CHOOSE k \in 1 .. Len(data.outcomes) : data.outcomes[k].id = id
    IN data.outcomes[i].title

\* C31.  Coin-flip prediction protocol: create_coin_flip_prediction has
\* issued no PATCH request while it awaits the creation, sends an error
\* message or waits, and none at all when the creation returned another
\* status than 200; it issues at most one, after the 60 seconds of the
\* prediction window, for the prediction that was created and with the
\* id of the outcome whose title is the result drawn, which is also the
\* result it then announces in chat.
C31_CoinflipProtocol ==
    /\ coinflip.pc \in {"post", "send_underway", "send_error", "sleep60"} =>
          coinflip.patches = <<>>
    /\ (coinflip.pc # "post" /\ coinflip.response.status # StatusOk) =>
          coinflip.patches = <<>>
    /\ coinflip.patches # <<>> =>
          /\ Len(coinflip.patches) = 1
          /\ coinflip.response.status = StatusOk
          /\ coinflip.waited = PredictionWindow
          /\ coinflip.patches[1].id = coinflip.response.data[1].id
          /\ \E k \in 1 .. Len(coinflip.response.data[1].outcomes) :
                coinflip.response.data[1].outcomes[k].id =
                    coinflip.patches[1].winning_outcome_id
          /\ TitleOf(coinflip.response.data[1],
                     coinflip.patches[1].winning_outcome_id) = coinflip.result
    /\ \A i \in 1 .. Len(coinflip.sent) :
          coinflip.sent[i].kind = "The result is {}!" =>
              /\ coinflip.patches # <<>>
              /\ coinflip.sent[i].args = <<coinflip.result>>

\* The prediction was created with the outcome Tails listed first; after
\* the window the result Tails was drawn, the PATCH request named the
\* Tails outcome and "The result is Tails!" has been sent.
C31_Witness ==
    /\ coinflip.pc = "none"
    /\ coinflip.outcome = "returned"
    /\ coinflip.result = "Tails"
    /\ coinflip.response.data # <<>>
    /\ coinflip.response.data[1].outcomes[1] =
          [id |-> "outcome 2", title |-> "Tails"]
    /\ coinflip.patches =
          <<ResolveRequest(coinflip.response.data[1].id, "outcome 2")>>
    /\ coinflip.sent = <<ResultMessage("Tails")>>

====
